---- MODULE Spec2Model ----
(***************************************************************************)
(* dflock: a model of the plan/tree subsystem of src/dflock/main.py.       *)
(*                                                                         *)
(* A commit is a record [sha, message]; a sha is a sequence of digits, a   *)
(* message a string.  A branch of the repository is the sequence of the    *)
(* messages of its commits, oldest first (the code never reads the sha of  *)
(* a commit it finds on a branch, only its message); the empty sequence    *)
(* stands for "no such ref".  A Delta is the NamedTuple of main.py:158, its *)
(* optional target a sequence of length 0 (None) or 1.  A tree (a dict     *)
(* from branch name to Delta) is the sequence of its values in insertion   *)
(* order, which is the order the topological sorter reads it in.           *)
(*                                                                         *)
(* Spec is the command line at work on one repository: the plan and write  *)
(* commands, step by step through write_plan, and what the developer does  *)
(* between them.  ParseSpec runs parse_plan alone on every short text, and *)
(* ReconstructSpec runs reconstruct_tree alone on every repository whose   *)
(* managed branches hold a short history.                                  *)
(***************************************************************************)
EXTENDS Integers, Sequences, FiniteSets, TLC

\* ------------------------------------------------------------------ bounds

\* Number of commits on the local branch on top of the upstream.
NumCommits == 3

\* ------------------------------------------------------- names and commits

\* App.upstream and App.local (the remote is "", so upstream_name = upstream).
app_upstream == "upstream"
app_local == "local"
TEMPORARY == "dflock-temporary-branch"
BRANCH_TEMPLATE == "test/"

\* Python's None, where the code holds "None or a string".
None == "None"

Min(a, b) == IF a < b THEN a ELSE b

\* Number of leading characters of a sha that short_str prints.
ShortShaLen == 8

Commit(sha, message) == [sha |-> sha, message |-> message]

\* The sha of the i-th local commit: two digits, so that a one-digit prefix
\* can match two commits.
Sha(i) == <<(i + 1) \div 2, 2 - (i % 2)>>

\* Message of the single commit of the upstream branch.
RootMessage == "0"

\* The local commits of the model, oldest first, with distinct messages.
LocalCommits == [i \in 1..NumCommits |-> Commit(Sha(i), ToString(i))]

\* str.startswith on shas.
StartsWith(sha, prefix) ==
    /\ Len(prefix) <= Len(sha)
    /\ SubSeq(sha, 1, Len(prefix)) = prefix

short_sha(commit) == SubSeq(commit.sha, 1, Min(ShortShaLen, Len(commit.sha)))

\* The name is a function of the message alone: the template applied to the
\* slug and the md5 prefix of the message, both determined by the message.
get_commit_branch_name(commit) == BRANCH_TEMPLATE \o commit.message

\* First index of x in the sequence s, 0 when absent (list.index).
RECURSIVE IndexFrom(_, _, _)
IndexFrom(s, x, k) ==
    IF k > Len(s) THEN 0
    ELSE IF s[k] = x THEN k
    ELSE IndexFrom(s, x, k + 1)

IndexOf(s, x) == IndexFrom(s, x, 1)

Range(s) == {s[k] : k \in DOMAIN s}

\* ------------------------------------------------------------------ Delta

upstream_name == app_upstream

Delta(commits, target, branch_name, target_branch_name) ==
    [commits |-> commits, target |-> target,
     branch_name |-> branch_name, target_branch_name |-> target_branch_name]

\* target is <<>> for None and <<d>> for the Delta d.
_create_delta(commits, target, anchor_commit) ==
    Delta(commits, target,
          IF anchor_commit = "first"
              THEN get_commit_branch_name(commits[1])
              ELSE get_commit_branch_name(commits[Len(commits)]),
          IF target = <<>> THEN upstream_name ELSE target[1].branch_name)

\* tree[delta.branch_name] = delta: an existing key keeps its position.
DictPut(tree, delta) ==
    LET names == [k \in DOMAIN tree |-> tree[k].branch_name]
        at == IndexOf(names, delta.branch_name)
    IN  IF at = 0 THEN Append(tree, delta) ELSE [tree EXCEPT ![at] = delta]

TreeNames(tree) == {tree[k].branch_name : k \in DOMAIN tree}

\* tree[name]; only used where name is a key.
TreeGet(tree, name) ==
    tree[CHOOSE k \in DOMAIN tree : tree[k].branch_name = name]

\* dict equality: the same keys with equal values, whatever the order.
TreeEq(t1, t2) == Range(t1) = Range(t2)

RECURSIVE build_tree_from(_, _, _, _, _, _)
build_tree_from(commits, k, tree, target, stack, anchor_commit) ==
    IF k > Len(commits) THEN tree
    ELSE LET delta == _create_delta(<<commits[k]>>, target, anchor_commit)
         IN  build_tree_from(commits, k + 1, DictPut(tree, delta),
                             IF stack THEN <<delta>> ELSE target,
                             stack, anchor_commit)

\* build_tree that never passes a Delta on as the next target.
build_tree_without_targets(commits, stack, anchor_commit) ==
    build_tree_from(commits, 1, <<>>, <<>>, FALSE, anchor_commit)

build_tree(commits, stack, anchor_commit) ==
    build_tree_from(commits, 1, <<>>, <<>>, stack, anchor_commit)

\* -------------------------------------------------------------- plan text

\* A plan is a sequence of lines.  A line is blank, a comment (it starts
\* with #) or a sequence of words of which the code reads the first two: the
\* command and the sha prefix.  The command word is kept in parsed form:
\* c = "b" with the two groups of the regular expression of main.py:561
\* (label, and target or None), c = "s", or c = "u" for any other word.
Command(c, label, target) == [c |-> c, label |-> label, target |-> target]

SkipCommand == Command("s", "", None)
UnknownCommand == Command("u", "", None)
BranchCommand(label, target) == Command("b", label, target)

PlanLine(kind, nwords, command, sha) ==
    [kind |-> kind, nwords |-> nwords, command |-> command, sha |-> sha]

BlankLine == PlanLine("blank", 0, SkipCommand, <<>>)
CommentLine == PlanLine("comment", 1, SkipCommand, <<>>)
WordsLine(command, sha) == PlanLine("words", 2, command, sha)
OneWordLine(command) == PlanLine("words", 1, command, <<>>)

\* iterate_plan: the lines that are neither blank nor comments.
iterate_plan(plan) ==
    SelectSeq(plan, LAMBDA line : line.kind = "words")

_BranchCommand(label, target_label, commit_sha) ==
    [label |-> label, target_label |-> target_label, commit_sha |-> commit_sha]

_CommitList(label, target_label, commits) ==
    [label |-> label, target_label |-> target_label, commits |-> commits]

\* Outcome of a function that may raise: error is "" or the exception.
Raised(error, detail) == [error |-> error, detail |-> detail, value |-> <<>>]
Returned(value) == [error |-> "", detail |-> "", value |-> value]

\* The tokenizer without the skip command: every line must be a branch line.
_tokenize_line_without_skip(line) ==
    IF line.nwords < 2
        THEN Raised("ParsingError", "each line should contain at least a command and a commit SHA")
    ELSE IF line.command.c = "b"
        THEN Returned(<<_BranchCommand(line.command.label,
                                       line.command.target, line.sha)>>)
    ELSE Raised("ParsingError", "unrecognized command")

\* _tokenize_plan on one line: a _BranchCommand, nothing (a skip) or a
\* ParsingError.  The value is a sequence of zero or one commands.
_tokenize_line(line) ==
    IF line.nwords < 2
        THEN Raised("ParsingError", "each line should contain at least a command and a commit SHA")
    ELSE IF line.command.c = "b"
        THEN Returned(<<_BranchCommand(line.command.label,
                                       line.command.target, line.sha)>>)
    ELSE IF line.command.c # "s"
        THEN Raised("ParsingError", "unrecognized command")
    ELSE Returned(<<>>)

\* next(c for c in local_commits if c.sha.startswith(prefix)) on the
\* iterator whose unconsumed commits are rest: the index of the match, or 0.
RECURSIVE NextMatch(_, _, _)
NextMatch(rest, prefix, k) ==
    IF k > Len(rest) THEN 0
    ELSE IF StartsWith(rest[k].sha, prefix) THEN k
    ELSE NextMatch(rest, prefix, k + 1)

\* The loop body on a list of the local commits instead of an iterator:
\* every command searches all of them again.
_make_commit_lists_step_on_list(bc, rest, branches) ==
    LET opened ==
            IF Len(branches) = 0 \/ bc.label # branches[Len(branches)].label
                THEN Append(branches, _CommitList(bc.label, None, <<>>))
                ELSE branches
        n == Len(opened)
        j == NextMatch(rest, bc.commit_sha, 1)
        added == [opened EXCEPT ![n].commits = Append(@, rest[j])]
    IN  IF j = 0
            THEN Raised("PlanError", "cannot match commits in plan to local commits")
        ELSE IF bc.target_label = None
            THEN Returned([rest |-> rest, branches |-> added])
        ELSE IF added[n].target_label = None
            THEN Returned([rest |-> rest,
                           branches |-> [added EXCEPT ![n].target_label = bc.target_label]])
        ELSE IF added[n].target_label # bc.target_label
            THEN Raised("PlanError", "multiple targets specified")
        ELSE Returned([rest |-> rest, branches |-> added])

\* The body of the loop of _make_commit_lists for one command.
_make_commit_lists_step(bc, rest, branches) ==
    LET opened ==
            IF Len(branches) = 0 \/ bc.label # branches[Len(branches)].label
                THEN Append(branches, _CommitList(bc.label, None, <<>>))
                ELSE branches
        n == Len(opened)
        j == NextMatch(rest, bc.commit_sha, 1)
        added == [opened EXCEPT ![n].commits = Append(@, rest[j])]
    IN  IF j = 0
            THEN Raised("PlanError", "cannot match commits in plan to local commits")
        ELSE IF bc.target_label = None
            THEN Returned([rest |-> SubSeq(rest, j + 1, Len(rest)), branches |-> added])
        ELSE IF added[n].target_label = None
            THEN Returned([rest |-> SubSeq(rest, j + 1, Len(rest)),
                           branches |-> [added EXCEPT ![n].target_label = bc.target_label]])
        ELSE IF added[n].target_label # bc.target_label
            THEN Raised("PlanError", "multiple targets specified")
        ELSE Returned([rest |-> SubSeq(rest, j + 1, Len(rest)), branches |-> added])

\* _make_commit_lists driven by the generator _tokenize_plan: the lines are
\* tokenized one at a time, as the loop asks for them.
RECURSIVE _make_commit_lists_from(_, _, _, _)
_make_commit_lists_from(lines, k, rest, branches) ==
    IF k > Len(lines) THEN Returned(branches)
    ELSE LET tok == _tokenize_line(lines[k])
         IN  IF tok.error # "" THEN tok
             ELSE IF tok.value = <<>>
                 THEN _make_commit_lists_from(lines, k + 1, rest, branches)
             ELSE LET step == _make_commit_lists_step(tok.value[1], rest, branches)
                  IN  IF step.error # "" THEN step
                      ELSE _make_commit_lists_from(lines, k + 1, step.value.rest,
                                                   step.value.branches)

_make_commit_lists(plan, local_commits) ==
    _make_commit_lists_from(iterate_plan(plan), 1, local_commits, <<>>)

\* deltas[label] on the dict kept as a sequence of [label, delta] items.
LabelIndex(deltas, label) ==
    IndexOf([k \in DOMAIN deltas |-> deltas[k].label], label)

LabelPut(deltas, label, delta) ==
    LET at == LabelIndex(deltas, label)
        item == [label |-> label, delta |-> delta]
    IN  IF at = 0 THEN Append(deltas, item) ELSE [deltas EXCEPT ![at] = item]

\* {b.branch_name: b for b in deltas.values()}
RECURSIVE DictOfValues(_, _, _)
DictOfValues(deltas, k, tree) ==
    IF k > Len(deltas) THEN tree
    ELSE DictOfValues(deltas, k + 1, DictPut(tree, deltas[k].delta))

\* The check with a root group always let through.
ValidTargetOrRoot(d, valid_target_labels) ==
    d.target_label = None \/ d.target_label \in valid_target_labels

ValidTarget(d, valid_target_labels) == d.target_label \in valid_target_labels

RECURSIVE _build_tree_from(_, _, _, _, _, _)
_build_tree_from(candidate_deltas, k, deltas, last_target_label, valid_target_labels, anchor_commit) ==
    IF k > Len(candidate_deltas) THEN Returned(DictOfValues(deltas, 1, <<>>))
    ELSE LET d == candidate_deltas[k]
             target_branch ==
                 IF d.target_label # None
                     THEN <<deltas[LabelIndex(deltas, d.target_label)].delta>>
                     ELSE <<>>
             changed == d.target_label # last_target_label
             valid == (IF changed THEN {d.target_label} ELSE valid_target_labels)
                          \cup {d.label}
         IN  IF ~ValidTarget(d, valid_target_labels)
                 THEN Raised("PlanError", "invalid target")
             ELSE _build_tree_from(
                      candidate_deltas, k + 1,
                      LabelPut(deltas, d.label,
                               _create_delta(d.commits, target_branch, anchor_commit)),
                      IF changed THEN d.target_label ELSE last_target_label,
                      valid, anchor_commit)

_build_tree(candidate_deltas, anchor_commit) ==
    _build_tree_from(candidate_deltas, 1, <<>>, None, {None}, anchor_commit)

parse_plan(plan, local_commits, anchor_commit) ==
    LET commit_lists == _make_commit_lists(plan, local_commits)
    IN  IF commit_lists.error # "" THEN commit_lists
        ELSE _build_tree(commit_lists.value, anchor_commit)

\* sorted(tree.values(), key=...): a stable insertion sort on the position
\* of the first commit of each delta in the local commits.
RECURSIVE InsertSorted(_, _, _, _)
InsertSorted(sorted, d, key, k) ==
    IF k > Len(sorted) THEN Append(sorted, d)
    ELSE IF key[d] < key[sorted[k]]
        THEN SubSeq(sorted, 1, k - 1) \o <<d>> \o SubSeq(sorted, k, Len(sorted))
    ELSE InsertSorted(sorted, d, key, k + 1)

RECURSIVE SortDeltas(_, _, _, _)
SortDeltas(tree, k, key, sorted) ==
    IF k > Len(tree) THEN sorted
    ELSE SortDeltas(tree, k + 1, key, InsertSorted(sorted, tree[k], key, 1))

\* Index of the first delta of sorted_deltas that holds the commit, or 0.
RECURSIVE FirstDeltaWith(_, _, _)
FirstDeltaWith(sorted_deltas, commit, k) ==
    IF k > Len(sorted_deltas) THEN 0
    ELSE IF commit \in Range(sorted_deltas[k].commits) THEN k
    ELSE FirstDeltaWith(sorted_deltas, commit, k + 1)

\* The command word render_plan writes for one commit; indices are printed
\* from 0 in decimal.
render_command(sorted_deltas, commit) ==
    LET d_i == FirstDeltaWith(sorted_deltas, commit, 1)
        delta == sorted_deltas[d_i]
    IN  IF d_i = 0 THEN SkipCommand
        ELSE IF delta.target = <<>> THEN BranchCommand(ToString(d_i - 1), None)
        ELSE BranchCommand(ToString(d_i - 1),
                           ToString(IndexOf(sorted_deltas, delta.target[1]) - 1))

\* render_plan raises ValueError when a commit of a delta is no local commit
\* or a target is no value of the tree (list.index).
render_plan(tree, local_commits) ==
    LET key == [d \in Range(tree) |-> IndexOf(local_commits, d.commits[1])]
        sorted_deltas == SortDeltas(tree, 1, key, <<>>)
    IN  IF \/ \E d \in Range(tree) : key[d] = 0
           \/ \E k \in DOMAIN local_commits :
                  LET d_i == FirstDeltaWith(sorted_deltas, local_commits[k], 1)
                  IN  /\ d_i # 0
                      /\ sorted_deltas[d_i].target # <<>>
                      /\ IndexOf(sorted_deltas, sorted_deltas[d_i].target[1]) = 0
            THEN Raised("ValueError", "not in list")
        ELSE Returned([k \in DOMAIN local_commits |->
                 WordsLine(render_command(sorted_deltas, local_commits[k]),
                           short_sha(local_commits[k]))])

\* ------------------------------------------------------------- repository

\* The names of the managed branches the local commits can give rise to.
DeltaBranchNames == {get_commit_branch_name(LocalCommits[k]) : k \in 1..NumCommits}

BranchNames == {app_upstream, app_local, TEMPORARY} \cup DeltaBranchNames

Messages == {LocalCommits[k].message : k \in 1..NumCommits}

\* utils.object_exists and utils.get_local_branches on the refs.
object_exists(branches, name) == branches[name] # <<>>

get_local_branches(branches) == {b \in BranchNames : branches[b] # <<>>}

\* Length of the longest common prefix of two sequences.
RECURSIVE CommonPrefix(_, _, _)
CommonPrefix(s, t, k) ==
    IF k > Len(s) \/ k > Len(t) \/ s[k] # t[k] THEN k - 1
    ELSE CommonPrefix(s, t, k + 1)

\* get_commits_between: git rev-list rev_a..rev_b, oldest first.  The k-th
\* commit on top of the fork point keeps the sha of the k-th local commit.
get_commits_between(branches, rev_a, rev_b) ==
    LET fork == CommonPrefix(branches[rev_a], branches[rev_b], 1)
        n == Len(branches[rev_b]) - fork
    IN  [k \in 1..n |-> Commit(Sha(k), branches[rev_b][fork + k])]

\* A commit read from a branch: the code reads its message only.
BranchCommit(message) == Commit(<<>>, message)

\* get_commits(rev): every commit of the branch, oldest first.
get_commits(branches, rev) ==
    [k \in 1..Len(branches[rev]) |-> BranchCommit(branches[rev][k])]

\* get_last_n_commits: at most n commits leading up to rev, oldest first.
get_last_n_commits(branches, rev, n) ==
    LET all == get_commits(branches, rev)
    IN  SubSeq(all, Len(all) - Min(n, Len(all)) + 1, Len(all))

\* utils.have_diverged: the upstream is no ancestor of the local branch.
have_diverged(branches, up, loc) ==
    CommonPrefix(branches[up], branches[loc], 1) < Len(branches[up])

_get_local_commits(branches) ==
    IF ~object_exists(branches, upstream_name)
        THEN Raised("ClickException", "Upstream does not exist")
    ELSE IF ~object_exists(branches, app_local)
        THEN Raised("ClickException", "Local does not exist")
    ELSE LET commits == get_commits_between(branches, upstream_name, app_local)
         IN  IF Len(commits) # Cardinality({commits[k].message : k \in DOMAIN commits})
                 THEN Raised("ClickException", "Duplicate commit messages found in local commits.")
             ELSE Returned(commits)

\* Only called after _get_local_commits returned.
get_hot_branches(branches) ==
    LET commits == _get_local_commits(branches).value
    IN  get_local_branches(branches)
            \cap {get_commit_branch_name(commits[k]) : k \in DOMAIN commits}

\* commits_by_message[message]: the dict keeps the last commit of a message.
CommitByMessage(commits, message) ==
    LET at == CHOOSE k \in DOMAIN commits :
                /\ commits[k].message = message
                /\ \A j \in DOMAIN commits : commits[j].message = message => j <= k
    IN  commits[at]

KnownMessage(commits, message) ==
    \E k \in DOMAIN commits : commits[k].message = message

\* The loop of _infer_delta_last_commit over reversed(candidate_commits),
\* at position j; acc is the list `commits` of the code.
RECURSIVE _infer_last_walk(_, _, _, _, _, _)
_infer_last_walk(candidate_commits, j, acc, commit, commits, tree) ==
    IF j = 0 THEN [commits |-> acc, target |-> <<>>]
    ELSE LET cc == candidate_commits[j]
             branch_name == get_commit_branch_name(cc)
         IN  IF /\ branch_name \in TreeNames(tree)
                /\ branch_name # get_commit_branch_name(commit)
                 THEN [commits |-> acc, target |-> <<TreeGet(tree, branch_name)>>]
             ELSE IF KnownMessage(commits, cc.message)
                 THEN _infer_last_walk(candidate_commits, j - 1,
                                       <<CommitByMessage(commits, cc.message)>> \o acc,
                                       commit, commits, tree)
             ELSE [commits |-> acc, target |-> <<>>]

\* i is the 1-based position of commit in the local commits.
_infer_delta_last_commit(commit, i, commits, tree, branches) ==
    LET candidate_commits ==
            get_last_n_commits(branches, get_commit_branch_name(commit), i)
        tip == candidate_commits[Len(candidate_commits)]
        found == _infer_last_walk(candidate_commits, Len(candidate_commits),
                                  <<>>, commit, commits, tree)
    IN  IF get_commit_branch_name(tip) # get_commit_branch_name(commit)
            THEN Raised("ClickException", "Invalid state")
        ELSE IF found.commits = <<>>
            THEN Raised("IndexError", "list index out of range")
        ELSE Returned(_create_delta(found.commits, found.target, "last"))

\* The second loop of _infer_delta_first_commit: the known commits from
\* position j on, up to the first unknown message.
RECURSIVE _infer_first_walk(_, _, _, _)
_infer_first_walk(candidate_commits, j, acc, commits) ==
    IF j > Len(candidate_commits) THEN acc
    ELSE IF KnownMessage(commits, candidate_commits[j].message)
        THEN _infer_first_walk(candidate_commits, j + 1,
                 Append(acc, CommitByMessage(commits, candidate_commits[j].message)),
                 commits)
    ELSE acc

\* The first loop: the first delta of the tree whose last commit has the
\* message; <<>> when there is none.
RECURSIVE FirstDeltaEndingWith(_, _, _)
FirstDeltaEndingWith(tree, message, k) ==
    IF k > Len(tree) THEN <<>>
    ELSE IF tree[k].commits[Len(tree[k].commits)].message = message THEN <<tree[k]>>
    ELSE FirstDeltaEndingWith(tree, message, k + 1)

\* A variant of PrecedingIndex that is off by one: the commit itself is
\* taken for the one that precedes it.
SameIndex(start_index, length) == start_index

\* candidate_commits[start_index - 1] in Python: the index -1 is the last
\* element.  start_index is 1-based here.
PrecedingIndex(start_index, length) ==
    IF start_index = 1 THEN length ELSE start_index - 1

_infer_delta_first_commit(commit, i, commits, tree, branches) ==
    LET n_local == Cardinality({commits[k].message : k \in DOMAIN commits})
        candidate_commits ==
            get_last_n_commits(branches, get_commit_branch_name(commit),
                               n_local - (i - 1) + 1)
        names == [k \in DOMAIN candidate_commits |->
                     get_commit_branch_name(candidate_commits[k])]
        start_index == IndexOf(names, get_commit_branch_name(commit))
        preceding == candidate_commits[
                         PrecedingIndex(start_index, Len(candidate_commits))]
        target == FirstDeltaEndingWith(tree, preceding.message, 1)
        branch_commits == _infer_first_walk(candidate_commits, start_index, <<>>, commits)
    IN  IF start_index = 0
            THEN Raised("ValueError", "is not in list")
        ELSE Returned(_create_delta(branch_commits, target, "first"))

RECURSIVE reconstruct_tree_from(_, _, _, _, _)
reconstruct_tree_from(commits, i, tree, branches, anchor_commit) ==
    IF i > Len(commits) THEN Returned(tree)
    ELSE IF get_commit_branch_name(commits[i]) \notin get_local_branches(branches)
        THEN reconstruct_tree_from(commits, i + 1, tree, branches, anchor_commit)
    ELSE LET delta ==
                 IF anchor_commit = "first"
                     THEN _infer_delta_first_commit(commits[i], i, commits, tree, branches)
                     ELSE _infer_delta_last_commit(commits[i], i, commits, tree, branches)
         IN  IF delta.error # "" THEN delta
             ELSE reconstruct_tree_from(commits, i + 1, DictPut(tree, delta.value),
                                        branches, anchor_commit)

reconstruct_tree(branches, anchor_commit) ==
    LET commits == _get_local_commits(branches)
    IN  IF commits.error # "" THEN commits
        ELSE reconstruct_tree_from(commits.value, 1, <<>>, branches, anchor_commit)

\* ------------------------------------------------------------ write_plan

\* The nodes of the TopologicalSorter in the order it first meets them: each
\* key of the tree, followed by its target's name.
RECURSIVE dag_nodes(_, _, _)
dag_nodes(tree, k, nodes) ==
    IF k > Len(tree) THEN nodes
    ELSE LET name == tree[k].branch_name
             with_name == IF name \in Range(nodes) THEN nodes ELSE Append(nodes, name)
             with_target ==
                 IF tree[k].target = <<>> \/ tree[k].target[1].branch_name \in Range(with_name)
                     THEN with_name
                     ELSE Append(with_name, tree[k].target[1].branch_name)
         IN  dag_nodes(tree, k + 1, with_target)

HasPredecessor(tree, name) ==
    \E k \in DOMAIN tree : tree[k].branch_name = name /\ tree[k].target # <<>>

\* The successors of a node, in the order the sorter recorded them.
successors(tree, name) ==
    LET users == SelectSeq(tree, LAMBDA d :
                     d.target # <<>> /\ d.target[1].branch_name = name)
    IN  [k \in DOMAIN users |-> users[k].branch_name]

RECURSIVE ConcatSuccessors(_, _, _)
ConcatSuccessors(tree, group, k) ==
    IF k > Len(group) THEN <<>>
    ELSE successors(tree, group[k]) \o ConcatSuccessors(tree, group, k + 1)

\* static_order: the ready nodes, then the nodes they make ready, and so on.
\* Every node has at most one predecessor, so it is ready when that is done.
RECURSIVE ready_groups(_, _)
ready_groups(tree, group) ==
    IF group = <<>> THEN <<>>
    ELSE group \o ready_groups(tree, ConcatSuccessors(tree, group, 1))

\* The nodes as the sorter first met them, without sorting.
static_order_as_added(tree) == dag_nodes(tree, 1, <<>>)

static_order(tree) ==
    ready_groups(tree, SelectSeq(dag_nodes(tree, 1, <<>>),
                                 LAMBDA name : ~HasPredecessor(tree, name)))

\* git cherry-pick of one commit on a branch: it applies when the commit it
\* builds on is there and the commit itself is not (an empty pick stops).
Applies(message, base, needs) ==
    /\ needs[message] \in Range(base)
    /\ message \notin Range(base)

\* git cherry-pick c1 c2 ...: the picks in order, stopping at the first that
\* fails; content is what the current branch holds at that point.
RECURSIVE cherry_pick_from(_, _, _, _)
cherry_pick_from(content, commits, k, needs) ==
    IF k > Len(commits) THEN [ok |-> TRUE, content |-> content]
    ELSE IF ~Applies(commits[k].message, content, needs)
        THEN [ok |-> FALSE, content |-> content]
    ELSE cherry_pick_from(Append(content, commits[k].message), commits, k + 1, needs)

cherry_pick(delta, content, needs) == cherry_pick_from(content, delta.commits, 1, needs)

\* utils.temporary_branch: a scratch branch created at HEAD and checked out,
\* removed when the block is left.
temporary_branch_enter(branches, content) ==
    [branches EXCEPT ![TEMPORARY] = content]

temporary_branch_exit(branches) == [branches EXCEPT ![TEMPORARY] = <<>>]

\* utils.return_to_head: HEAD as it was when the block was entered.
return_to_head_exit(original_head, head) == original_head

\* A variant of write_branch that checks out the upstream whatever the
\* target of the delta is.
write_branch_on_upstream(branches, delta, needs) ==
    LET base == branches[upstream_name]
        on_temporary == temporary_branch_enter(branches, base)
        pick == cherry_pick(delta, base, needs)
        existed == object_exists(branches, delta.branch_name)
        created == [on_temporary EXCEPT ![delta.branch_name] = pick.content]
    IN  IF pick.ok
            THEN [ok |-> TRUE, existed |-> existed, picked |-> pick.content,
                  head |-> delta.branch_name,
                  branches |-> temporary_branch_exit(created)]
            ELSE [ok |-> FALSE, existed |-> existed, picked |-> pick.content,
                  head |-> upstream_name,
                  branches |-> temporary_branch_exit(on_temporary)]

\* A variant of write_branch in the order the docstring of write_plan gives:
\* the branch is deleted before its commits are cherry-picked.
write_branch_delete_first(branches, delta, needs) ==
    LET base == branches[delta.target_branch_name]
        existed == object_exists(branches, delta.branch_name)
        deleted == [branches EXCEPT ![delta.branch_name] = <<>>]
        on_temporary == temporary_branch_enter(deleted, base)
        pick == cherry_pick(delta, base, needs)
        created == [on_temporary EXCEPT ![delta.branch_name] = pick.content]
    IN  IF pick.ok
            THEN [ok |-> TRUE, existed |-> existed, picked |-> pick.content,
                  head |-> delta.branch_name,
                  branches |-> temporary_branch_exit(created)]
            ELSE [ok |-> FALSE, existed |-> existed, picked |-> pick.content,
                  head |-> delta.target_branch_name,
                  branches |-> temporary_branch_exit(on_temporary)]

\* A variant of write_branch that keeps a branch that exists and picks the
\* commits on top of it, instead of picking on the target and re-creating.
write_branch_on_existing(branches, delta, needs) ==
    LET existed == object_exists(branches, delta.branch_name)
        base == IF existed THEN branches[delta.branch_name]
                ELSE branches[delta.target_branch_name]
        on_temporary == temporary_branch_enter(branches, base)
        pick == cherry_pick(delta, base, needs)
        created == [on_temporary EXCEPT ![delta.branch_name] = pick.content]
    IN  IF pick.ok
            THEN [ok |-> TRUE, existed |-> existed, picked |-> pick.content,
                  head |-> delta.branch_name,
                  branches |-> temporary_branch_exit(created)]
            ELSE [ok |-> FALSE, existed |-> existed, picked |-> pick.content,
                  head |-> delta.target_branch_name,
                  branches |-> temporary_branch_exit(on_temporary)]

\* The body of the loop of write_plan for one delta, on the refs and HEAD:
\* checkout of the target, the temporary branch, the cherry-pick, and then
\* either the abort (nothing else is touched) or the delete and re-create of
\* the delta's branch at the picked commits.  picked is what the temporary
\* branch held when the cherry-pick ended, before any abort.
write_branch(branches, delta, needs) ==
    LET base == branches[delta.target_branch_name]
        on_temporary == temporary_branch_enter(branches, base)
        pick == cherry_pick(delta, base, needs)
        existed == object_exists(branches, delta.branch_name)
        created == [on_temporary EXCEPT ![delta.branch_name] = pick.content]
    IN  IF pick.ok
            THEN [ok |-> TRUE, existed |-> existed, picked |-> pick.content,
                  head |-> delta.branch_name,
                  branches |-> temporary_branch_exit(created)]
            ELSE [ok |-> FALSE, existed |-> existed, picked |-> pick.content,
                  head |-> delta.target_branch_name,
                  branches |-> temporary_branch_exit(on_temporary)]

\* The two assignments to updated[branch_name] of main.py:625-629.
record_update(updated, branch_name, existed) ==
    LET after_delete == IF existed THEN (branch_name :> TRUE) @@ updated ELSE updated
    IN  (branch_name :> FALSE) @@ after_delete

\* write_plan from the first turn of its loop to its end, on the refs: the
\* branches of order are written one after the other, until the sorter is
\* exhausted (write_plan returns), a name is no key of the tree (KeyError)
\* or a cherry-pick fails (CherryPickFailed).
RECURSIVE write_plan_from(_, _, _, _)
write_plan_from(branches, tree, order, needs) ==
    IF order = <<>> THEN [error |-> "", branches |-> branches]
    ELSE IF Head(order) \notin TreeNames(tree)
        THEN [error |-> "KeyError", branches |-> branches]
    ELSE LET w == write_branch(branches, TreeGet(tree, Head(order)), needs)
         IN  IF ~w.ok THEN [error |-> "CherryPickFailed", branches |-> w.branches]
             ELSE write_plan_from(w.branches, tree, Tail(order), needs)

write_plan(branches, tree, needs) ==
    write_plan_from(branches, tree, static_order(tree), needs)

\* A variant of prune_local_branches that takes every branch named by the
\* template for a managed branch, whether or not a local commit has the name.
prune_local_branches_by_template(branches, tree) ==
    [b \in BranchNames |->
        IF b \in DeltaBranchNames \ TreeNames(tree) THEN <<>> ELSE branches[b]]

\* A variant of prune_local_branches that deletes no branch.
prune_local_branches_keeps(branches, tree) == branches

\* prune_local_branches: git branch -D of the hot branches not in the tree.
prune_local_branches(branches, tree) ==
    LET branches_to_prune == get_hot_branches(branches) \ TreeNames(tree)
    IN  [b \in BranchNames |-> IF b \in branches_to_prune THEN <<>> ELSE branches[b]]

\* A variant of check_preconditions without the clean_work_tree decorator.
check_preconditions_ignoring_work_tree(branches, head, dirty) ==
    IF _get_local_commits(branches).error # "" THEN _get_local_commits(branches)
    ELSE IF head \in get_hot_branches(branches)
        THEN Raised("ClickException", "please switch to a branch not managed by dflock")
    ELSE IF have_diverged(branches, upstream_name, app_local)
        THEN Raised("ClickException", "Your local and upstream have diverged.")
    ELSE Returned(<<>>)

\* The decorators of plan and write, in the order they run: clean_work_tree,
\* no_hot_branch (which reads the local commits), undiverged.
check_preconditions(branches, head, dirty) ==
    IF dirty THEN Raised("ClickException", "Work tree not clean.")
    ELSE IF _get_local_commits(branches).error # "" THEN _get_local_commits(branches)
    ELSE IF head \in get_hot_branches(branches)
        THEN Raised("ClickException", "please switch to a branch not managed by dflock")
    ELSE IF have_diverged(branches, upstream_name, app_local)
        THEN Raised("ClickException", "Your local and upstream have diverged.")
    ELSE Returned(<<>>)

\* ------------------------------------------------------------ the commands

Anchors == {"first", "last"}
Strategies == {"detect", "stack", "flat", "empty"}

\* The labels the edited plans use.
Labels == {"0", "1"}

Commands ==
    {SkipCommand, UnknownCommand}
        \cup {BranchCommand(l, t) : l \in Labels, t \in Labels \cup {None}}

\* The texts the editor may hand back: one line per local commit with any
\* command, the empty text, a text of comments only, a line of one word,
\* and a text that names the last commit before the first.
EditedPlans ==
    {[k \in 1..NumCommits |-> WordsLine(f[k], short_sha(LocalCommits[k]))] :
        f \in [1..NumCommits -> Commands]}
    \cup {<<>>, <<BlankLine, CommentLine>>,
          <<OneWordLine(BranchCommand("0", None))>>,
          <<WordsLine(BranchCommand("0", None), short_sha(LocalCommits[NumCommits])),
            WordsLine(BranchCommand("0", None), short_sha(LocalCommits[1]))>>}

\* What the plan command reads of a text: whether nothing is left of it
\* after iterate_plan (main.py:858-859) and what parse_plan makes of it.
NewPlan(text, local_commits, anchor_commit) ==
    [empty |-> iterate_plan(text) = <<>>,
     parsed |-> parse_plan(text, local_commits, anchor_commit)]

\* The edited texts as the command reads them on the local commits of the
\* model, and on none.
EditedNewPlans ==
    [a \in Anchors |->
        [n \in {0, NumCommits} |->
            {NewPlan(text, SubSeq(LocalCommits, 1, n), a) : text \in EditedPlans}]]

\* What git cherry-pick needs: each commit builds on one earlier commit of
\* the local branch or on the upstream alone, and conflicts without it.
NeedsChoices ==
    {f \in [Messages -> Messages \cup {RootMessage}] :
        \A k \in 1..NumCommits :
            f[LocalCommits[k].message] \in
                {RootMessage} \cup {LocalCommits[j].message : j \in 1..(k - 1)}}

VARIABLES
    branches,        \* ref name -> messages of its commits, <<>> if absent
    head,            \* the checked-out branch
    dirty,           \* the work tree has uncommitted changes
    anchor_commit,   \* App.anchor_commit
    needs,           \* what each commit builds on (decides cherry-picks)
    pc,              \* "idle", "writing" inside write_plan, "ended"
    command,         \* the command running or just ended, "" at the prompt
    outcome,         \* how the command ended, "" before it has
    tree,            \* the tree given to write_plan
    order,           \* what is left of ts.static_order()
    updated,         \* the dict write_plan returns
    original_head,   \* what return_to_head restores
    edited,          \* the plan text went through the editor
    empty_plan,      \* the plan text held no command line
    started_clean,   \* no managed branch existed when the command started
    existed,         \* for each branch processed: did it exist before
    failed,          \* the branch whose cherry-pick failed, as it was
                     \* before, and what the temporary branch had picked
    call             \* one function run on its own: its name, its
                     \* arguments and, once it has run, what it gave

vars == <<branches, head, dirty, anchor_commit, needs, pc, command, outcome,
          tree, order, updated, original_head, edited, empty_plan,
          started_clean, existed, failed, call>>

\* What no command changes.
config == <<anchor_commit, needs, call>>

Call(fn, args) == [fn |-> fn, args |-> args, done |-> FALSE, result |-> <<>>]
NoCall == Call("", <<>>)

EmptyDict == [b \in {} |-> FALSE]
NoFailure == [branch_name |-> "", before |-> <<>>, picked |-> <<>>]

InitialBranches ==
    [b \in BranchNames |->
        IF b = app_upstream THEN <<RootMessage>>
        ELSE IF b = app_local
            THEN <<RootMessage>> \o [k \in 1..NumCommits |-> LocalCommits[k].message]
        ELSE <<>>]

Init ==
    /\ branches = InitialBranches
    /\ head = app_local
    /\ dirty = FALSE
    /\ anchor_commit \in Anchors
    /\ needs \in NeedsChoices
    /\ pc = "idle"
    /\ command = ""
    /\ outcome = ""
    /\ tree = <<>>
    /\ order = <<>>
    /\ updated = EmptyDict
    /\ original_head = app_local
    /\ edited = FALSE
    /\ empty_plan = FALSE
    /\ started_clean = TRUE
    /\ existed = EmptyDict
    /\ failed = NoFailure
    /\ call = NoCall

\* The tree the strategy gives (main.py:845-854).
strategy_tree(strategy, branches_, anchor) ==
    IF strategy = "stack"
        THEN Returned(build_tree(_get_local_commits(branches_).value, TRUE, anchor))
    ELSE IF strategy = "flat"
        THEN Returned(build_tree(_get_local_commits(branches_).value, FALSE, anchor))
    ELSE IF strategy = "empty" THEN Returned(<<>>)
    ELSE reconstruct_tree(branches_, anchor)

\* if (edit or strategy == "detect") and not show
plan_edits(strategy, edit, show) == (edit \/ strategy = "detect") /\ ~show

NoPlan == [empty |-> FALSE, parsed |-> Returned(<<>>)]

\* plan up to the editor (main.py:831-855): the decorators, the tree of the
\* strategy and its rendering.  error is "" when the command goes on;
\* rendered is then the new plan as the command reads it if nobody edits it.
plan_start(strategy, branches_, head_, dirty_, anchor) ==
    LET pre == check_preconditions(branches_, head_, dirty_)
        local_commits == _get_local_commits(branches_).value
        tree0 == strategy_tree(strategy, branches_, anchor)
        rendered == render_plan(tree0.value, local_commits)
    IN  IF pre.error # ""
            THEN [error |-> "precondition", tree0 |-> <<>>,
                  rendered |-> NoPlan, local_commits |-> <<>>]
        ELSE IF tree0.error # "" \/ rendered.error # ""
            THEN [error |-> "error", tree0 |-> <<>>,
                  rendered |-> NoPlan, local_commits |-> <<>>]
        ELSE [error |-> "", tree0 |-> tree0.value,
              rendered |-> NewPlan(rendered.value, local_commits, anchor),
              local_commits |-> local_commits]

Ended(how, start, edits, new_plan) ==
    [outcome |-> how, tree |-> <<>>, tree0 |-> start.tree0,
     edited |-> edits, empty_plan |-> new_plan.empty]

\* A variant of plan without the check of main.py:859-861: an emptied plan
\* is applied like any other.
plan_applies_emptied(start, edits, show, input) ==
    LET new_plan == IF edits THEN input ELSE start.rendered
    IN  IF start.error # "" THEN Ended(start.error, start, FALSE, NoPlan)
        ELSE IF show THEN Ended("shown", start, edits, new_plan)
        ELSE IF new_plan.parsed.error # "" THEN Ended("rejected", start, edits, new_plan)
        ELSE [outcome |-> "", tree |-> new_plan.parsed.value, tree0 |-> start.tree0,
              edited |-> edits, empty_plan |-> new_plan.empty]

\* plan from the editor to the call of write_plan (main.py:856-867): how
\* the command ends there, or the tree it goes on to write (outcome "").
\* edits is the condition of main.py:856; input is what the editor hands
\* back, read only when the plan is edited.
plan(start, edits, show, input) ==
    LET new_plan == IF edits THEN input ELSE start.rendered
    IN  IF start.error # "" THEN Ended(start.error, start, FALSE, NoPlan)
        ELSE IF edits /\ new_plan.empty THEN Ended("aborted", start, edits, new_plan)
        ELSE IF show THEN Ended("shown", start, edits, new_plan)
        ELSE IF new_plan.parsed.error # "" THEN Ended("rejected", start, edits, new_plan)
        ELSE [outcome |-> "", tree |-> new_plan.parsed.value, tree0 |-> start.tree0,
              edited |-> edits, empty_plan |-> new_plan.empty]

\* The texts the command may be given: those of the editor when it runs,
\* read on the local commits of the repository.
PlanInputs(start, edits, anchor) ==
    IF ~(start.error = "" /\ edits) THEN {NoPlan}
    ELSE LET n == Len(start.local_commits)
         IN  IF n \in {0, NumCommits} /\ start.local_commits = SubSeq(LocalCommits, 1, n)
                 THEN EditedNewPlans[anchor][n]
                 ELSE {NewPlan(text, start.local_commits, anchor) : text \in EditedPlans}

\* A variant of plan_on_error that prunes on the way out, as a finally
\* clause around prune_local_branches would.
plan_on_error_prunes(branches_, tree_) == prune_local_branches(branches_, tree_)

\* A variant of write_plan_exit_head without the return_to_head block.
write_plan_exit_stays(original_head_, head_) == head_

\* The except clauses of plan (main.py:872-876): the error is reported.
plan_on_error(branches_, tree_) == branches_

\* with utils.return_to_head(): write_plan(tree), when the block is left.
write_plan_exit_head(original_head_, head_) ==
    return_to_head_exit(original_head_, head_)

StartGhosts ==
    /\ started_clean' =
           (_get_local_commits(branches).error = "" => get_hot_branches(branches) = {})
    /\ existed' = EmptyDict
    /\ failed' = NoFailure

\* plan, up to the call of write_plan: it ends before that on a failed
\* precondition, with --show, on an emptied plan and on a plan parse_plan
\* rejects; otherwise write_plan starts on the tree of the plan.
Plan ==
    /\ pc = "idle"
    /\ \E strategy \in Strategies :
         LET start == plan_start(strategy, branches, head, dirty, anchor_commit)
         IN  \E edit \in BOOLEAN, show \in BOOLEAN :
               LET edits == plan_edits(strategy, edit, show)
               IN  \E input \in PlanInputs(start, edits, anchor_commit) :
                     LET p == plan(start, edits, show, input)
                     IN  /\ outcome' = p.outcome
                         /\ pc' = IF p.outcome = "" THEN "writing" ELSE "ended"
                         /\ edited' = p.edited
                         /\ empty_plan' = p.empty_plan
                         /\ tree' = p.tree
                         /\ order' = static_order(p.tree)
                         /\ branches' = IF p.outcome = "rejected"
                                            THEN plan_on_error(branches, p.tree0)
                                            ELSE branches
    /\ command' = "plan"
    /\ updated' = EmptyDict
    /\ original_head' = head
    /\ StartGhosts
    /\ UNCHANGED <<head, dirty, config>>

\* write: the preconditions, reconstruct_tree, and write_plan starts.
WriteCommand ==
    /\ pc = "idle"
    /\ LET pre == check_preconditions(branches, head, dirty)
           found == reconstruct_tree(branches, anchor_commit)
       IN  IF pre.error # "" \/ found.error # ""
               THEN /\ outcome' = IF pre.error # "" THEN "precondition" ELSE "error"
                    /\ pc' = "ended"
                    /\ tree' = <<>>
                    /\ order' = <<>>
               ELSE /\ outcome' = ""
                    /\ pc' = "writing"
                    /\ tree' = found.value
                    /\ order' = static_order(found.value)
    /\ command' = "write"
    /\ edited' = FALSE
    /\ empty_plan' = FALSE
    /\ updated' = EmptyDict
    /\ original_head' = head
    /\ StartGhosts
    /\ UNCHANGED <<branches, head, dirty, config>>

\* One turn of the loop of write_plan in which the cherry-pick succeeds.
WriteBranch ==
    /\ pc = "writing"
    /\ order # <<>>
    /\ Head(order) \in TreeNames(tree)
    /\ LET delta == TreeGet(tree, Head(order))
           w == write_branch(branches, delta, needs)
       IN  /\ w.ok
           /\ branches' = w.branches
           /\ head' = w.head
           /\ updated' = record_update(updated, delta.branch_name, w.existed)
           /\ existed' = (delta.branch_name :> w.existed) @@ existed
    /\ order' = Tail(order)
    /\ UNCHANGED <<dirty, config, pc, command, outcome, tree, original_head,
                   edited, empty_plan, started_clean, failed>>

\* One turn of the loop in which the cherry-pick fails: CherryPickFailed
\* leaves write_plan and the return_to_head block, and the command ends.
WriteBranchFails ==
    /\ pc = "writing"
    /\ order # <<>>
    /\ Head(order) \in TreeNames(tree)
    /\ LET delta == TreeGet(tree, Head(order))
           w == write_branch(branches, delta, needs)
       IN  /\ ~w.ok
           /\ branches' = w.branches
           /\ head' = write_plan_exit_head(original_head, w.head)
           /\ failed' = [branch_name |-> delta.branch_name,
                         before |-> branches[delta.branch_name],
                         picked |-> w.picked]
    /\ pc' = "ended"
    /\ outcome' = "CherryPickFailed"
    /\ UNCHANGED <<dirty, config, command, tree, order, updated, original_head,
                   edited, empty_plan, started_clean, existed>>

\* tree[branch_name] raises KeyError when the sorter yields the name of a
\* target that is no key of the tree; nothing catches it.
WriteKeyError ==
    /\ pc = "writing"
    /\ order # <<>>
    /\ Head(order) \notin TreeNames(tree)
    /\ head' = write_plan_exit_head(original_head, head)
    /\ pc' = "ended"
    /\ outcome' = "KeyError"
    /\ UNCHANGED <<branches, dirty, config, command, tree, order, updated,
                   original_head, edited, empty_plan, started_clean, existed, failed>>

\* write_plan returns: the return_to_head block is left, and plan prunes.
WriteReturns ==
    /\ pc = "writing"
    /\ order = <<>>
    /\ head' = write_plan_exit_head(original_head, head)
    /\ branches' = IF command = "plan"
                       THEN prune_local_branches(branches, tree)
                       ELSE branches
    /\ pc' = "ended"
    /\ outcome' = "ok"
    /\ UNCHANGED <<dirty, config, command, tree, order, updated, original_head,
                   edited, empty_plan, started_clean, existed, failed>>

\* The command has ended and its report has been read: back at the prompt,
\* where nothing of the run is left but the refs and HEAD.
Prompt ==
    /\ pc = "ended"
    /\ pc' = "idle"
    /\ command' = ""
    /\ outcome' = ""
    /\ tree' = <<>>
    /\ order' = <<>>
    /\ updated' = EmptyDict
    /\ original_head' = head
    /\ edited' = FALSE
    /\ empty_plan' = FALSE
    /\ started_clean' = TRUE
    /\ existed' = EmptyDict
    /\ failed' = NoFailure
    /\ UNCHANGED <<branches, head, dirty, config>>

\* ---------------------------------------------------------- the developer

NoFault ==
    /\ ~dirty
    /\ branches[app_upstream] = InitialBranches[app_upstream]
    /\ branches[app_local] = InitialBranches[app_local]

Developer(next_branches, next_head, next_dirty) ==
    /\ pc = "idle"
    /\ branches' = next_branches
    /\ head' = next_head
    /\ dirty' = next_dirty
    /\ original_head' = next_head
    /\ UNCHANGED <<config, pc, command, outcome, tree, order, updated,
                   edited, empty_plan, started_clean, existed, failed>>

\* checkout (main.py:965): git checkout of the local or of a delta branch.
Checkout ==
    \E b \in (get_local_branches(branches) \ {TEMPORARY, app_upstream}) :
        /\ b # head
        /\ Developer(branches, b, dirty)

\* The developer edits a tracked file, or reverts the edit.
EditWorkTree ==
    /\ NoFault \/ dirty
    /\ Developer(branches, head, ~dirty)

\* The upstream moves ahead of the fork point, or is moved back.
MoveUpstream ==
    /\ NoFault \/ branches[app_upstream] = <<RootMessage, "u">>
    /\ Developer([branches EXCEPT ![app_upstream] =
                     IF @ = <<RootMessage>> THEN <<RootMessage, "u">>
                     ELSE <<RootMessage>>],
                 head, dirty)

\* A ref is deleted, or created again where it was.
ToggleRef ==
    \E b \in {app_upstream, app_local} :
        /\ b # head
        /\ NoFault \/ branches[b] = <<>>
        /\ Developer([branches EXCEPT ![b] =
                         IF @ = <<>> THEN InitialBranches[b] ELSE <<>>],
                     head, dirty)

\* The last local commit is reworded to the message of the first, or back.
Reword ==
    LET n == Len(InitialBranches[app_local])
        reworded == [InitialBranches[app_local] EXCEPT ![n] = LocalCommits[1].message]
    IN  /\ NumCommits > 1
        /\ NoFault \/ branches[app_local] = reworded
        /\ Developer([branches EXCEPT ![app_local] =
                         IF @ = reworded THEN InitialBranches[app_local] ELSE reworded],
                     head, dirty)

\* git reset --hard upstream on the local branch, which then has no local
\* commit, or back to where it was.
ResetLocal ==
    /\ NoFault \/ branches[app_local] = InitialBranches[app_upstream]
    /\ Developer([branches EXCEPT ![app_local] =
                     IF @ = InitialBranches[app_upstream]
                         THEN InitialBranches[app_local]
                         ELSE InitialBranches[app_upstream]],
                 head, dirty)

Next ==
    \/ Plan
    \/ WriteCommand
    \/ WriteBranch
    \/ WriteBranchFails
    \/ WriteKeyError
    \/ WriteReturns
    \/ Prompt
    \/ Checkout
    \/ EditWorkTree
    \/ MoveUpstream
    \/ ToggleRef
    \/ Reword
    \/ ResetLocal

Spec == Init /\ [][Next]_vars

\* ------------------------------------------------- parse_plan on its own

\* parse_plan run on every text of at most as many lines as there are local
\* commits, with the local commits of the model.

\* A sha no local commit has.
UnknownSha == <<9, 9>>

\* What a line may give for a sha: the short sha of a local commit, the
\* first digit of the first one (a prefix of two shas) or an unknown sha.
ShaPrefixes ==
    {short_sha(LocalCommits[k]) : k \in 1..NumCommits}
        \cup {SubSeq(Sha(1), 1, 1), UnknownSha}

PlanLines ==
    {WordsLine(c, p) : c \in Commands, p \in ShaPrefixes}
        \cup {OneWordLine(BranchCommand("0", None)), CommentLine}

\* The texts of n lines.
PlanTexts(n) == [1..n -> PlanLines]

ParseInit ==
    /\ branches = InitialBranches
    /\ head = app_local
    /\ dirty = FALSE
    /\ anchor_commit \in Anchors
    /\ needs = [m \in Messages |-> RootMessage]
    /\ pc = "idle"
    /\ command = ""
    /\ outcome = ""
    /\ tree = <<>>
    /\ order = <<>>
    /\ updated = EmptyDict
    /\ original_head = app_local
    /\ edited = FALSE
    /\ empty_plan = FALSE
    /\ started_clean = TRUE
    /\ existed = EmptyDict
    /\ failed = NoFailure
    /\ \E n \in 0..NumCommits : \E text \in PlanTexts(n) :
           call = Call("parse_plan", text)

\* App.parse_plan(plan) (main.py:344-347).
ParsePlan ==
    /\ call.fn = "parse_plan"
    /\ ~call.done
    /\ call' = [call EXCEPT
           !.done = TRUE,
           !.result = parse_plan(call.args, _get_local_commits(branches).value,
                                 anchor_commit)]
    /\ UNCHANGED <<branches, head, dirty, anchor_commit, needs, pc, command,
                   outcome, tree, order, updated, original_head, edited,
                   empty_plan, started_clean, existed, failed>>

ParseNext == ParsePlan

ParseSpec == ParseInit /\ [][ParseNext]_vars

\* ------------------------------------------- reconstruct_tree on its own

\* Messages of commits that are not local commits: commits made on a
\* managed branch, or local commits reworded or dropped since.
OtherMessages == {"x", "y"}

Injective(s) == \A i, j \in DOMAIN s : s[i] = s[j] => i = j

\* What a managed branch may hold on top of the upstream when the command
\* starts: the commit it is named after, among at most NumCommits commits
\* in any order, local or not.  dflock wrote the branch for an earlier order
\* of the local commits, with either anchor, and the developer may have
\* committed on it or rebased the local branch since.
BranchHistories(message) ==
    {s \in UNION {[1..n -> Messages \cup OtherMessages] : n \in 1..NumCommits} :
        Injective(s) /\ message \in Range(s)}

\* The repositories with the first k managed branches absent or holding
\* such a history, and the upstream and local branch as they start.
RECURSIVE Repositories(_)
Repositories(k) ==
    IF k = 0 THEN {InitialBranches}
    ELSE {[r EXCEPT ![get_commit_branch_name(LocalCommits[k])] = h] :
            r \in Repositories(k - 1),
            h \in {<<>>} \cup {<<RootMessage>> \o s :
                                  s \in BranchHistories(LocalCommits[k].message)}}

ReconstructInit ==
    /\ branches \in Repositories(NumCommits)
    /\ head = app_local
    /\ dirty = FALSE
    /\ anchor_commit \in Anchors
    /\ needs = [m \in Messages |-> RootMessage]
    /\ pc = "idle"
    /\ command = ""
    /\ outcome = ""
    /\ tree = <<>>
    /\ order = <<>>
    /\ updated = EmptyDict
    /\ original_head = app_local
    /\ edited = FALSE
    /\ empty_plan = FALSE
    /\ started_clean = TRUE
    /\ existed = EmptyDict
    /\ failed = NoFailure
    /\ call = Call("reconstruct_tree", <<>>)

\* App.reconstruct_tree() (main.py:296-342).
ReconstructTree ==
    /\ call.fn = "reconstruct_tree"
    /\ ~call.done
    /\ call' = [call EXCEPT
           !.done = TRUE,
           !.result = reconstruct_tree(branches, anchor_commit)]
    /\ UNCHANGED <<branches, head, dirty, anchor_commit, needs, pc, command,
                   outcome, tree, order, updated, original_head, edited,
                   empty_plan, started_clean, existed, failed>>

ReconstructNext == ReconstructTree

ReconstructSpec == ReconstructInit /\ [][ReconstructNext]_vars

\* --------------------------------------------------------------- the claims

commit_messages(commits) == [k \in DOMAIN commits |-> commits[k].message]

\* The loop of write_plan has run to its end: write_plan returns normally.
WritePlanReturns == pc = "writing" /\ order = <<>>

\* C1: when write_plan(tree) has gone through without a failed cherry-pick
\* in a repository that held no managed branch when the command started,
\* reconstruct_tree() returns a tree equal to tree, for either anchor.
C1_Stability ==
    (WritePlanReturns /\ started_clean) =>
        LET found == reconstruct_tree(branches, anchor_commit)
        IN  found.error = "" /\ TreeEq(found.value, tree)

\* C1 happens: a tree of two deltas, one of two commits, one with a target,
\* has been written and is found again.
C1_Witness ==
    /\ WritePlanReturns /\ started_clean
    /\ Len(tree) = 2
    /\ \E k \in DOMAIN tree : tree[k].target # <<>>
    /\ \E k \in DOMAIN tree : Len(tree[k].commits) = 2
    /\ TreeEq(reconstruct_tree(branches, anchor_commit).value, tree)

\* The trees C2 is about, in a repository whose local commits can be read.
RoundTrips(tree_, local_commits) ==
    LET rendered == render_plan(tree_, local_commits)
        parsed == parse_plan(rendered.value, local_commits, anchor_commit)
    IN  /\ rendered.error = ""
        /\ parsed.error = ""
        /\ TreeEq(parsed.value, tree_)

\* C2: at the prompt, for the tree of build_tree (stack or flat) and for the
\* tree of reconstruct_tree when it returns one, parse_plan(render_plan(tree))
\* returns a tree equal to tree.
C2_RoundTrip ==
    (pc = "idle" /\ _get_local_commits(branches).error = "") =>
        LET local_commits == _get_local_commits(branches).value
            found == reconstruct_tree(branches, anchor_commit)
        IN  /\ RoundTrips(build_tree(local_commits, TRUE, anchor_commit), local_commits)
            /\ RoundTrips(build_tree(local_commits, FALSE, anchor_commit), local_commits)
            /\ found.error = "" => RoundTrips(found.value, local_commits)

\* C3: when write_plan(tree) returns normally, the branch of every Delta of
\* the tree exists and holds the commits of its target branch (the upstream
\* without a target) followed by the commits of the Delta, in order.
C3_NetEffect ==
    WritePlanReturns =>
        \A k \in DOMAIN tree :
            /\ object_exists(branches, tree[k].branch_name)
            /\ branches[tree[k].branch_name] =
                   branches[tree[k].target_branch_name] \o commit_messages(tree[k].commits)

\* C3 happens: write_plan returns after it replaced a branch that existed,
\* and a Delta of the tree has a target.
C3_Witness ==
    /\ WritePlanReturns
    /\ \E k \in DOMAIN tree : tree[k].target # <<>>
    /\ \E name \in DOMAIN existed : existed[name]
    /\ \E name \in DOMAIN existed : ~existed[name]

C5_HeadRestored ==
    (pc = "ended" /\ command \in {"plan", "write"}
                  /\ outcome \in {"ok", "CherryPickFailed"}) =>
        head = original_head

\* C5 happens: the command ended with CherryPickFailed after write_plan had
\* checked out and written other branches.
C5_Witness ==
    /\ pc = "ended" /\ outcome = "CherryPickFailed"
    /\ DOMAIN existed # {}
    /\ head = original_head

\* C6: the step of the plan command in which parse_plan rejects the plan
\* text creates, deletes, moves and prunes no branch.
C6_RejectedPlanMutatesNothing ==
    [][(pc = "idle" /\ outcome' = "rejected") => branches' = branches]_vars

\* C6 happens: an edited plan was rejected while managed branches existed.
C6_Witness ==
    /\ pc = "ended" /\ command = "plan" /\ outcome = "rejected"
    /\ edited
    /\ get_hot_branches(branches) # {}

\* The conditions C7 names, read off the repository.
MissingRef ==
    ~object_exists(branches, upstream_name) \/ ~object_exists(branches, app_local)

DuplicateMessages ==
    /\ ~MissingRef
    /\ LET messages == commit_messages(
                           get_commits_between(branches, upstream_name, app_local))
       IN  \E i, j \in DOMAIN messages : i # j /\ messages[i] = messages[j]

OnHotBranch ==
    /\ ~MissingRef /\ ~DuplicateMessages
    /\ head \in get_hot_branches(branches)

Diverged ==
    /\ ~MissingRef
    /\ have_diverged(branches, upstream_name, app_local)

FatalPrecondition ==
    dirty \/ MissingRef \/ DuplicateMessages \/ OnHotBranch \/ Diverged

\* C7: the plan command, started with a dirty work tree, on a managed
\* branch, with local and upstream diverged, with the upstream or the local
\* ref missing or with two local commits of one message, ends with an error
\* and changes no branch.
C7_PreconditionsBeforeMutation ==
    [][(pc = "idle" /\ command' = "plan" /\ FatalPrecondition) =>
          (pc' = "ended" /\ outcome' = "precondition" /\ branches' = branches)]_vars

\* C7 happens: plan was refused on a managed branch, in a clean work tree.
C7_Witness ==
    /\ pc = "ended" /\ command = "plan" /\ outcome = "precondition"
    /\ OnHotBranch
    /\ ~dirty /\ ~Diverged

\* C8: no step of a plan command whose plan text holds no command line
\* changes a branch, for every strategy and with or without --edit.
C8_EmptyPlanChangesNothing ==
    [][(command' = "plan" /\ empty_plan') => branches' = branches]_vars

\* C8 happens: a plan text without a line was applied unedited, and the
\* command ended after write_plan and the pruning.
C8_Witness ==
    /\ pc = "ended" /\ command = "plan" /\ outcome = "ok"
    /\ empty_plan /\ ~edited
    /\ branches = prune_local_branches(branches, tree)

\* C8 happens with the editor: the plan was emptied and the command ended
\* there, while managed branches existed.
C8_WitnessEdited ==
    /\ pc = "ended" /\ command = "plan" /\ outcome = "aborted"
    /\ empty_plan /\ edited
    /\ get_hot_branches(branches) # {}

\* C9: when write_plan returns, its result maps every branch name of the
\* tree to TRUE exactly when a branch of that name existed before write_plan
\* processed it.
C9_UpdatedTellsRecreated ==
    WritePlanReturns =>
        \A name \in TreeNames(tree) :
            name \in DOMAIN updated /\ updated[name] = existed[name]

NoSharedCommit(tree_) ==
    \A i, j \in DOMAIN tree_ :
        i # j => Range(tree_[i].commits) \cap Range(tree_[j].commits) = {}

\* C10: each local commit belongs to at most one Delta of the tree a command
\* writes, and at the prompt of the trees build_tree and reconstruct_tree
\* return.
C10_NoSharedCommit ==
    /\ NoSharedCommit(tree)
    /\ (pc = "idle" /\ _get_local_commits(branches).error = "") =>
           LET local_commits == _get_local_commits(branches).value
               found == reconstruct_tree(branches, anchor_commit)
           IN  /\ NoSharedCommit(build_tree(local_commits, TRUE, anchor_commit))
               /\ NoSharedCommit(build_tree(local_commits, FALSE, anchor_commit))
               /\ found.error = "" => NoSharedCommit(found.value)

\* What parse_plan returned, once it has run on a text.
Parsed == call.fn = "parse_plan" /\ call.done
Accepted == Parsed /\ call.result.error = ""

\* The name of the branch the Delta stored under name targets, None at a
\* root and outside the tree.
TargetName(tree_, name) ==
    IF name \notin TreeNames(tree_) \/ TreeGet(tree_, name).target = <<>>
        THEN None
        ELSE TreeGet(tree_, name).target[1].branch_name

RECURSIVE FollowTargets(_, _, _)
FollowTargets(tree_, name, steps) ==
    IF steps = 0 THEN name
    ELSE FollowTargets(tree_, TargetName(tree_, name), steps - 1)

Acyclic(tree_) ==
    \A name \in TreeNames(tree_) :
        \A steps \in 1..Len(tree_) : FollowTargets(tree_, name, steps) # name

TargetsInTree(tree_) ==
    \A k \in DOMAIN tree_ :
        tree_[k].target # <<>> =>
            /\ tree_[k].target[1].branch_name \in TreeNames(tree_)
            /\ TreeGet(tree_, tree_[k].target[1].branch_name) = tree_[k].target[1]

\* C11: in the tree parse_plan returns for an accepted plan no Delta reaches
\* itself by following targets, and the target of every Delta is itself a
\* value of the tree, stored under its branch name.
C11_TargetsInTree ==
    Accepted => Acyclic(call.result.value) /\ TargetsInTree(call.result.value)

\* C11, the acyclic half alone, which holds.
C11_Acyclic == Accepted => Acyclic(call.result.value)

\* The local commits and the command lines of the text parse_plan was given.
ParsedCommits == _get_local_commits(branches).value
ParsedLines == iterate_plan(call.args)

RaisedWith(result, error, detail) ==
    result.error = error /\ result.detail = detail

CannotMatch ==
    RaisedWith(call.result, "PlanError",
               "cannot match commits in plan to local commits")

\* A line the tokenizer turns into a command: its sha prefix is matched.
BranchLine(line) == line.nwords >= 2 /\ line.command.c = "b"

\* The positions after pos of the local commits whose sha starts with prefix.
MatchesAfter(local_commits, pos, prefix) ==
    {j \in (pos + 1)..Len(local_commits) : StartsWith(local_commits[j].sha, prefix)}

\* The first branch line from line k on whose prefix matches no local
\* commit after the one matched by the branch line before it (pos), or 0.
RECURSIVE FirstUnmatched(_, _, _, _)
FirstUnmatched(lines, local_commits, k, pos) ==
    IF k > Len(lines) THEN 0
    ELSE IF ~BranchLine(lines[k])
        THEN FirstUnmatched(lines, local_commits, k + 1, pos)
    ELSE LET found == MatchesAfter(local_commits, pos, lines[k].sha)
         IN  IF found = {} THEN k
             ELSE FirstUnmatched(lines, local_commits, k + 1,
                                 CHOOSE j \in found : \A i \in found : j <= i)

\* A line the tokenizer rejects.
Malformed(line) == line.nwords < 2 \/ line.command.c \notin {"b", "s"}

\* Lines i < j of one run of lines of the same label that give two
\* different targets.
TargetsConflict(lines, i, j) ==
    /\ i < j
    /\ BranchLine(lines[i]) /\ BranchLine(lines[j])
    /\ \A m \in i..j :
           BranchLine(lines[m]) => lines[m].command.label = lines[i].command.label
    /\ lines[i].command.target # None
    /\ lines[j].command.target # None
    /\ lines[i].command.target # lines[j].command.target

\* A line before line k is malformed or gives its label a second target.
ErrorBefore(lines, k) ==
    \E j \in 1..(k - 1) :
        Malformed(lines[j]) \/ \E i \in 1..(j - 1) : TargetsConflict(lines, i, j)

\* C12: parse_plan raises PlanError 'cannot match commits' exactly when the
\* sha prefix of some non-skip line matches no local commit after the commit
\* matched by the non-skip line before it, unless a line before that one is
\* malformed or gives its label a second target: that line's error is raised
\* instead.
C12_CannotMatchUnlessEarlierError ==
    Parsed =>
        LET k == FirstUnmatched(ParsedLines, ParsedCommits, 1, 0)
        IN  CannotMatch <=> (k # 0 /\ ~ErrorBefore(ParsedLines, k))

\* C12 as stated: the error is raised whenever there is such a line.
C12_CannotMatchExactly ==
    Parsed =>
        (CannotMatch <=> FirstUnmatched(ParsedLines, ParsedCommits, 1, 0) # 0)

\* A text that names known commits only, one of them out of order or twice,
\* and is rejected for it.
C12_Witness ==
    /\ Parsed
    /\ CannotMatch
    /\ \A k \in DOMAIN ParsedLines :
           /\ BranchLine(ParsedLines[k])
           /\ MatchesAfter(ParsedCommits, 0, ParsedLines[k].sha) # {}

MultipleTargets ==
    RaisedWith(call.result, "PlanError", "multiple targets specified")

\* Two lines anywhere in the text carry the same label and two different
\* explicit targets.
TwoTargets(lines) ==
    \E i, j \in DOMAIN lines :
        /\ i < j
        /\ BranchLine(lines[i]) /\ BranchLine(lines[j])
        /\ lines[i].command.label = lines[j].command.label
        /\ lines[i].command.target # None
        /\ lines[j].command.target # None
        /\ lines[i].command.target # lines[j].command.target

\* No line is malformed and every branch line matches a commit in order.
WellFormedAndMatched(lines, local_commits) ==
    /\ \A k \in DOMAIN lines : ~Malformed(lines[k])
    /\ FirstUnmatched(lines, local_commits, 1, 0) = 0

\* C13: a plan in which two lines carry the same label but different explicit
\* targets is rejected with PlanError 'multiple targets' (stated for the
\* plans in which no line is malformed or unmatched, where no other error
\* comes first).
C13_MultipleTargets ==
    (Parsed /\ WellFormedAndMatched(ParsedLines, ParsedCommits)
            /\ TwoTargets(ParsedLines))
        => MultipleTargets

InvalidTarget == RaisedWith(call.result, "PlanError", "invalid target")

\* The commit lists of the text, in the order _build_tree processes them.
ParsedGroups == _make_commit_lists(call.args, ParsedCommits)

\* The target-label of the group before group k, None before the first.
TargetLabelBefore(groups, k) ==
    IF k = 1 THEN None ELSE groups[k - 1].target_label

\* The groups before group k whose target-label differs from the one of the
\* group before them.
Resets(groups, k) ==
    {m \in 1..(k - 1) : groups[m].target_label # TargetLabelBefore(groups, m)}

\* The valid set when group k is reached: {None} and the labels of all
\* groups so far if the target-label never changed, otherwise the
\* target-label of the last change and the labels of the groups since.
ValidSetAt(groups, k) ==
    IF Resets(groups, k) = {}
        THEN {None} \cup {groups[m].label : m \in 1..(k - 1)}
        ELSE LET r == CHOOSE m \in Resets(groups, k) :
                          \A n \in Resets(groups, k) : n <= m
             IN  {groups[r].target_label}
                     \cup {groups[m].label : m \in r..(k - 1)}

\* C14: once the text has been grouped, parse_plan raises PlanError 'invalid
\* target' exactly when the target-label of some group is outside the valid
\* set at that group, and accepts the plan otherwise; a root group that
\* follows a group with a target (a crossing plan) is rejected.
C14_ValidTargetRule ==
    (Parsed /\ ParsedGroups.error = "") =>
        LET groups == ParsedGroups.value
            outside == \E k \in DOMAIN groups :
                           groups[k].target_label \notin ValidSetAt(groups, k)
        IN  /\ InvalidTarget <=> outside
            /\ ~outside => call.result.error = ""

\* A crossing plan: a root group after a group with a target, rejected.
C14_Witness ==
    /\ Parsed
    /\ ParsedGroups.error = ""
    /\ InvalidTarget
    /\ Len(ParsedGroups.value) = 3
    /\ ParsedGroups.value[1].target_label = None
    /\ ParsedGroups.value[2].target_label = ParsedGroups.value[1].label
    /\ ParsedGroups.value[3].target_label = None

\* A group on the group before it, accepted.
C14_WitnessAccepted ==
    /\ Accepted
    /\ Len(ParsedGroups.value) = 2
    /\ ParsedGroups.value[2].target_label = ParsedGroups.value[1].label

\* A well-formed skip line.
SkipLine(line) == line.nwords >= 2 /\ line.command.c = "s"

\* The text with its skip lines deleted.
WithoutSkips(text) == SelectSeq(text, LAMBDA line : ~SkipLine(line))

\* C15: parse_plan gives the same result, tree or error, for a text and for
\* the text with its skip lines deleted, so that inserting or deleting a
\* skip line, or deleting a commit's line instead of marking it s, changes
\* nothing; and the lines of one label, whatever skipped commits lie between
\* them, give a single Delta without target.
C15_SkipEquivalence ==
    Parsed =>
        /\ call.result =
               parse_plan(WithoutSkips(call.args), ParsedCommits, anchor_commit)
        /\ (/\ Accepted
            /\ \E k \in DOMAIN ParsedLines : BranchLine(ParsedLines[k])
            /\ \A i, j \in DOMAIN ParsedLines :
                   (BranchLine(ParsedLines[i]) /\ BranchLine(ParsedLines[j]))
                       => ParsedLines[i].command.label = ParsedLines[j].command.label)
               => /\ Len(call.result.value) = 1
                  /\ call.result.value[1].target = <<>>
                  /\ call.result.value[1].commits = ParsedGroups.value[1].commits

\* The first and the last commit under one label with the commit between
\* them skipped: one Delta of the two commits, without target.
C15_Witness ==
    /\ Accepted
    /\ Len(call.args) = 3
    /\ BranchLine(call.args[1]) /\ SkipLine(call.args[2]) /\ BranchLine(call.args[3])
    /\ call.args[2].sha = short_sha(ParsedCommits[2])
    /\ Len(call.result.value) = 1
    /\ call.result.value[1].target = <<>>
    /\ call.result.value[1].commits = <<ParsedCommits[1], ParsedCommits[3]>>

\* N single-commit Deltas in the order of the commits, none with a target.
FlatShape(tree_, commits) ==
    /\ Len(tree_) = Len(commits)
    /\ \A k \in DOMAIN tree_ :
           tree_[k].commits = <<commits[k]>> /\ tree_[k].target = <<>>

\* N single-commit Deltas in one chain: each on the one before it.
StackShape(tree_, commits) ==
    /\ Len(tree_) = Len(commits)
    /\ \A k \in DOMAIN tree_ :
           /\ tree_[k].commits = <<commits[k]>>
           /\ tree_[k].target = IF k = 1 THEN <<>> ELSE <<tree_[k - 1]>>

\* C16: for the local commits and for each of their prefixes, the empty one
\* included, build_tree gives one single-commit Delta per commit: without
\* targets when stack is false, in one chain when it is true, and the empty
\* tree for no commit.
C16_BuildTreeShape ==
    _get_local_commits(branches).error = "" =>
        \A n \in 0..Len(_get_local_commits(branches).value) :
            LET commits == SubSeq(_get_local_commits(branches).value, 1, n)
            IN  /\ FlatShape(build_tree(commits, FALSE, anchor_commit), commits)
                /\ StackShape(build_tree(commits, TRUE, anchor_commit), commits)
                /\ n = 0 => build_tree(commits, TRUE, anchor_commit) = <<>>
                /\ n = 0 => build_tree(commits, FALSE, anchor_commit) = <<>>

\* The plan command is writing the stack of all local commits.
C16_Witness ==
    /\ command = "plan"
    /\ pc = "writing"
    /\ Len(tree) = NumCommits
    /\ tree = build_tree(LocalCommits, TRUE, anchor_commit)
    /\ tree[NumCommits].target = <<tree[NumCommits - 1]>>

\* The plan command has built the tree of no local commit.
C16_WitnessEmpty ==
    /\ command = "plan"
    /\ pc = "writing"
    /\ _get_local_commits(branches).value = <<>>
    /\ tree = <<>>

\* What reconstruct_tree returned, once it has run on a repository.
Reconstructed == call.fn = "reconstruct_tree" /\ call.done
ReconstructedTree == Reconstructed /\ call.result.error = ""

\* The commits are in the relative order they have among the local commits.
InLocalOrder(commits_, local_commits) ==
    \A i, j \in DOMAIN commits_ :
        i < j => /\ IndexOf(local_commits, commits_[i]) # 0
                 /\ IndexOf(local_commits, commits_[i])
                        < IndexOf(local_commits, commits_[j])

OrderPreserved(tree_, local_commits) ==
    \A k \in DOMAIN tree_ : InLocalOrder(tree_[k].commits, local_commits)

\* C17: in every Delta of a tree reconstruct_tree returns the commits are in
\* the relative order of the current local commits, also when the managed
\* branches were written for another order of them.
C17_OrderPreserved ==
    ReconstructedTree => OrderPreserved(call.result.value, ParsedCommits)

\* C17, the half on parse_plan: in every Delta of an accepted plan the
\* commits are in the relative order of the local commits.
C17_ParsedOrderPreserved ==
    Accepted => OrderPreserved(call.result.value, ParsedCommits)

\* write_plan is about to process the Delta stored under the next name of
\* the order.
AboutToWrite ==
    pc = "writing" /\ order # <<>> /\ Head(order) \in TreeNames(tree)

\* C18: whenever write_plan processes a Delta with a target, the target's
\* branch has been written earlier in the same run and exists, and the step
\* changes no branch but the Delta's own: the branches are written one at a
\* time, each after the one it builds on.
C18_TargetWrittenFirst ==
    [][AboutToWrite =>
          LET delta == TreeGet(tree, Head(order))
          IN  /\ delta.target # <<>> =>
                     /\ delta.target[1].branch_name \in DOMAIN existed
                     /\ object_exists(branches, delta.target[1].branch_name)
              /\ \A b \in BranchNames \ {delta.branch_name} :
                     branches'[b] = branches[b]]_vars

\* The first Delta of the tree builds on the second one, which has been
\* written, and is about to be written itself.
C18_Witness ==
    /\ AboutToWrite
    /\ Len(tree) >= 2
    /\ Head(order) = tree[1].branch_name
    /\ tree[1].target = <<tree[2]>>
    /\ tree[2].branch_name \in DOMAIN existed

\* The commits get_last_n_commits fetches of the branch of the local commit
\* at position i (from 1) with anchor 'first': the positions on the branch.
FetchedWindow(branch, i, n_local) ==
    {p \in DOMAIN branch : p > Len(branch) - (n_local - i + 2)}

\* The Deltas built before the k-th of the tree whose last commit has the
\* message.
BuiltBeforeEndingWith(tree_, k, message) ==
    {tree_[e] : e \in {e \in 1..(k - 1) :
        tree_[e].commits[Len(tree_[e].commits)].message = message}}

\* The targets the claim allows for the k-th Delta of the tree, built for
\* the commit c it starts with: the Deltas built before it that end with
\* the message of the commit before c on the branch, if that commit is in
\* the fetched window.
ExpectedTargets(tree_, k, branches_, local_commits) ==
    LET c == tree_[k].commits[1]
        branch == branches_[tree_[k].branch_name]
        p == IndexOf(branch, c.message)
        window == FetchedWindow(branch, IndexOf(local_commits, c),
                                Len(local_commits))
    IN  IF p - 1 \in window
            THEN BuiltBeforeEndingWith(tree_, k, branch[p - 1])
            ELSE {}

\* C19: with anchor 'first' the target of each Delta reconstruct_tree
\* returns is a Delta built before it whose last commit has the message of
\* the commit just before the Delta's first commit on its branch, and None
\* when there is no such Delta or no commit before it in the fetched window.
C19_FirstAnchorTarget ==
    (ReconstructedTree /\ anchor_commit = "first") =>
        \A k \in DOMAIN call.result.value :
            LET expected == ExpectedTargets(call.result.value, k, branches,
                                            ParsedCommits)
                target == call.result.value[k].target
            IN  IF expected = {} THEN target = <<>>
                ELSE target # <<>> /\ target[1] \in expected

\* C19 where a commit precedes the Delta's first commit inside the fetched
\* window: there the target is as claimed.
C19_FirstAnchorTargetInsideWindow ==
    (ReconstructedTree /\ anchor_commit = "first") =>
        \A k \in DOMAIN call.result.value :
            LET branch == branches[call.result.value[k].branch_name]
                c == call.result.value[k].commits[1]
                expected == ExpectedTargets(call.result.value, k, branches,
                                            ParsedCommits)
                target == call.result.value[k].target
            IN  (IndexOf(branch, c.message) - 1
                     \in FetchedWindow(branch, IndexOf(ParsedCommits, c),
                                       Len(ParsedCommits)))
                    => IF expected = {} THEN target = <<>>
                       ELSE target # <<>> /\ target[1] \in expected

\* A managed branch that exists holds a commit whose message is the message
\* of no local commit.
UnknownOnManagedBranch ==
    \E b \in DeltaBranchNames \cap get_local_branches(branches) :
        \E p \in 2..Len(branches[b]) : branches[b][p] \notin Messages

\* The messages are those of consecutive commits of the branch.
Segment(messages, branch) ==
    \E a \in DOMAIN branch :
        /\ a + Len(messages) - 1 <= Len(branch)
        /\ SubSeq(branch, a, a + Len(messages) - 1) = messages

\* The Delta is not empty and holds a run of consecutive commits of its
\* branch with known messages: from its first commit on for anchor 'first',
\* up to the tip for anchor 'last'.
KnownRun(delta, branches_, anchor) ==
    LET branch == branches_[delta.branch_name]
        messages == commit_messages(delta.commits)
    IN  /\ delta.commits # <<>>
        /\ Range(messages) \subseteq Messages
        /\ Segment(messages, branch)
        /\ anchor = "first" => get_commit_branch_name(delta.commits[1]) = delta.branch_name
        /\ anchor = "last" => messages[Len(messages)] = branch[Len(branch)]

\* With anchor 'last' the tip of a managed branch does not give the name of
\* the branch: the state _infer_delta_last_commit reports as invalid.
TipMismatch ==
    /\ anchor_commit = "last"
    /\ \E b \in DeltaBranchNames \cap get_local_branches(branches) :
           get_commit_branch_name(BranchCommit(branches[b][Len(branches[b])])) # b

\* C20: when a managed branch holds a commit with an unknown message,
\* reconstruct_tree still returns a tree, and every Delta of it is a
\* non-empty run of known commits of its branch on the anchor's side of the
\* unknown commit (the tip of a branch that does not match its name, which
\* is reported as an invalid state, set aside).
C20_UnknownTruncates ==
    (Reconstructed /\ UnknownOnManagedBranch /\ ~TipMismatch) =>
        /\ call.result.error = ""
        /\ \A k \in DOMAIN call.result.value :
               KnownRun(call.result.value[k], branches, anchor_commit)

\* C20 for the runs that do return a tree: the Deltas are truncated as
\* claimed.
C20_TruncatedWhenReturned ==
    (ReconstructedTree /\ UnknownOnManagedBranch) =>
        \A k \in DOMAIN call.result.value :
            KnownRun(call.result.value[k], branches, anchor_commit)

\* The first group whose target-label is outside the valid set, or 0.
FirstOutside(groups) ==
    IF \A k \in DOMAIN groups : groups[k].target_label \in ValidSetAt(groups, k)
        THEN 0
        ELSE CHOOSE k \in DOMAIN groups :
                 /\ groups[k].target_label \notin ValidSetAt(groups, k)
                 /\ \A m \in 1..(k - 1) :
                        groups[m].target_label \in ValidSetAt(groups, m)

\* A group without target comes after a group with one.
RootAfterTarget(groups) ==
    \E m, k \in DOMAIN groups :
        m < k /\ groups[m].target_label # None /\ groups[k].target_label = None

\* C21: a group without target is accepted as long as every group before it
\* is without target too; a plan in which a group without target follows a
\* group with a target is rejected with PlanError 'invalid target'.
C21_RootOnlyAfterRoots ==
    (Parsed /\ ParsedGroups.error = "") =>
        /\ RootAfterTarget(ParsedGroups.value) => InvalidTarget
        /\ (\A k \in DOMAIN ParsedGroups.value :
                ParsedGroups.value[k].target_label = None) => Accepted

\* C21 as stated: a group without target is accepted whatever precedes it,
\* so the group parse_plan rejects is never one without target.
C21_RootAlwaysAcceptable ==
    (Parsed /\ ParsedGroups.error = "" /\ InvalidTarget) =>
        ParsedGroups.value[FirstOutside(ParsedGroups.value)].target_label # None

\* The third group has no target, the second has one, and the third is the
\* group rejected.
C21_Witness ==
    /\ Parsed
    /\ ParsedGroups.error = ""
    /\ InvalidTarget
    /\ FirstOutside(ParsedGroups.value) = 3
    /\ ParsedGroups.value[2].target_label # None
    /\ ParsedGroups.value[3].target_label = None

\* Two branch lines of one label with a branch line of another label
\* between them.
NonContiguousLabel(lines) ==
    \E i, m, j \in DOMAIN lines :
        /\ i < m /\ m < j
        /\ BranchLine(lines[i]) /\ BranchLine(lines[m]) /\ BranchLine(lines[j])
        /\ lines[i].command.label = lines[j].command.label
        /\ lines[m].command.label # lines[i].command.label

\* C22: a plan in which two branch lines of the same label are separated by
\* a branch line of another label is rejected with PlanError, whatever the
\* targets (stated for the plans in which no line is malformed, so that no
\* ParsingError comes first).
C22_NonContiguousRejected ==
    (/\ Parsed
     /\ \A k \in DOMAIN ParsedLines : ~Malformed(ParsedLines[k])
     /\ NonContiguousLabel(ParsedLines))
        => call.result.error = "PlanError"

\* The commits the branch lines of the text match, through the in-order
\* iterator: the commits of all groups.
MatchedCommits(groups) ==
    UNION {Range(groups[k].commits) : k \in DOMAIN groups}

\* The number of Deltas of the tree that hold the commit.
DeltasHolding(tree_, commit) ==
    Cardinality({k \in DOMAIN tree_ : commit \in Range(tree_[k].commits)})

\* C23: in the tree of an accepted plan every local commit matched by a
\* branch line belongs to exactly one Delta, and every other local commit
\* to none.
C23_NoCommitDropped ==
    Accepted =>
        \A k \in DOMAIN ParsedCommits :
            DeltasHolding(call.result.value, ParsedCommits[k]) =
                IF ParsedCommits[k] \in MatchedCommits(ParsedGroups.value)
                    THEN 1 ELSE 0

\* C23, the halves that hold: no commit belongs to two Deltas, and a commit
\* matched by no branch line belongs to none.
C23_NoCommitAdded ==
    Accepted =>
        \A k \in DOMAIN ParsedCommits :
            /\ DeltasHolding(call.result.value, ParsedCommits[k]) <= 1
            /\ ParsedCommits[k] \notin MatchedCommits(ParsedGroups.value)
                   => DeltasHolding(call.result.value, ParsedCommits[k]) = 0

\* ----------------------------------------------------------------- C24

\* The plan command has completed successfully: write_plan returned and
\* prune_local_branches has run.
PlanSucceeded == pc = "ended" /\ command = "plan" /\ outcome = "ok"

\* C24: after the plan command has completed successfully, the managed
\* (hot) branches, the local branches named after a local commit, are
\* exactly the branches of the tree that was applied.
C24_ManagedSetIsTree == PlanSucceeded => get_hot_branches(branches) = TreeNames(tree)

\* C24 happens: a plan succeeded on a repository that had managed branches
\* when it started, none of which is a branch of the tree applied (every
\* branch written did not exist before), so that each of them was pruned.
C24_Witness ==
    /\ PlanSucceeded
    /\ ~started_clean
    /\ tree # <<>>
    /\ \A b \in TreeNames(tree) : b \in DOMAIN existed /\ ~existed[b]

\* ----------------------------------------------------------------- C25

\* write_plan has returned from the tree: for plan and for write this is the
\* only way the command ends with "ok", and nothing between the return of
\* write_plan and the end of the command touches a branch of the tree, the
\* local branch or the upstream.
WritePlanSucceeded == pc = "ended" /\ outcome = "ok" /\ command \in {"plan", "write"}

\* The loop of write_plan as the commands step through it is the loop of
\* write_plan run in one go: a turn of the loop leaves the outcome of the
\* rest of the run as it was.
WritePlanFoldsSteps ==
    [][WriteBranch =>
          write_plan_from(branches', tree, order', needs)
              = write_plan_from(branches, tree, order, needs)]_vars

\* C25: after write_plan(tree) has succeeded, write_plan run again on the
\* same tree, with the local branch and the upstream as they are, succeeds as
\* well and leaves every branch, present or absent, as the first run left it.
C25_WritePlanIdempotent ==
    WritePlanSucceeded =>
        /\ write_plan(branches, tree, needs).error = ""
        /\ write_plan(branches, tree, needs).branches = branches

\* C25 happens: write_plan succeeded on a tree in which a branch is built on
\* another one and a branch that existed before was re-created, and the
\* second run writes the branches again.
C25_Witness ==
    /\ WritePlanSucceeded
    /\ \E k \in DOMAIN tree : tree[k].target # <<>>
    /\ \E b \in DOMAIN existed : existed[b]
    /\ write_plan(branches, tree, needs).error = ""
    /\ write_plan_from(branches, tree, <<Head(static_order(tree))>>, needs).branches = branches

\* ----------------------------------------------------------------- C26

\* The derived branch names of the current local commits.
CurrentNames(branches_) ==
    LET commits == get_commits_between(branches_, upstream_name, app_local)
    IN  {get_commit_branch_name(commits[k]) : k \in DOMAIN commits}

\* The refs that are not managed: the local branch, the upstream and every
\* branch that is not named after a current local commit, the temporary
\* branch set aside.
Unmanaged(branches_) ==
    ({app_local, app_upstream} \cup (BranchNames \ CurrentNames(branches_)))
        \ {TEMPORARY}

\* A step of a command: every step of write_plan and of
\* prune_local_branches is one, and the developer acts at the prompt only.
CommandStep == pc # "idle" \/ pc' # "idle"

\* C26: no step of write_plan or of prune_local_branches, in a run that
\* succeeds or in one that fails, creates, deletes or moves the local
\* branch, the upstream or a branch that is not named after a current local
\* commit, and the temporary branch is gone when the step has ended.
C26_UnmanagedUntouched ==
    [][CommandStep =>
          /\ \A b \in Unmanaged(branches) : branches'[b] = branches[b]
          /\ branches'[TEMPORARY] = <<>>]_vars

\* A branch that was managed and is no longer: no current local commit has
\* its name.
StaleBranch(b) == b \in DeltaBranchNames \ CurrentNames(branches) /\ branches[b] # <<>>

\* C26 happens: a plan has ended with prune_local_branches run, and a
\* branch that was managed and that no current local commit names is still
\* there.
C26_Witness ==
    /\ PlanSucceeded
    /\ \E b \in DeltaBranchNames : StaleBranch(b)

\* C26 happens in a failed run: write_plan wrote a branch, a later
\* cherry-pick failed, and the local branch and the upstream are where they
\* were.
C26_WitnessFailed ==
    /\ pc = "ended"
    /\ outcome = "CherryPickFailed"
    /\ DOMAIN existed # {}
    /\ branches[app_local] = InitialBranches[app_local]
    /\ branches[app_upstream] = InitialBranches[app_upstream]
    /\ branches[TEMPORARY] = <<>>
====
